---- MODULE Spec2Model ----
(***************************************************************************)
(* The variational regression model of quantum/algorithms/                 *)
(* yield_predictor.py (CustomQuantumYieldPredictor) as a state machine:    *)
(* construction, fit (scaling, target normalisation, the COBYLA search     *)
(* with one action per cost-function callback), predict and score.         *)
(*                                                                         *)
(* Numbers.  Python floats are modelled exactly as integers over a fixed   *)
(* denominator, plus NaN where the code can produce it:                    *)
(*   - an expectation value e stands for e / ExpDen(num_qubits, shots);    *)
(*   - a normalised target [nan, num, den] stands for num / den, and for   *)
(*     NaN when nan is TRUE (0/0 in numpy is nan, not an exception);       *)
(*   - a cost [nan, v] stands for v / (n * (ExpDen * (y_max - y_min))^2),  *)
(*     the same denominator for every evaluation of one fit;               *)
(*   - a prediction p stands for p / ExpDen.                               *)
(* Comparisons with NaN are false, as in IEEE 754.                         *)
(*                                                                         *)
(* The engine is single-threaded: while a fit is inside minimize no other  *)
(* method of the instance runs.  The backend is not simulated: a run of a  *)
(* circuit may return any counts over its keys that sum to the shots, or   *)
(* raise.                                                                  *)
(***************************************************************************)
EXTENDS Integers, Sequences, FiniteSets, TLC

VARIABLES
    num_features,   \* self.num_features
    num_qubits,     \* self.num_qubits
    shots,          \* self.shots
    scaler,         \* self.scaler (StandardScaler statistics)
    y_min,          \* self.y_min: <<>> while the attribute does not exist
    y_max,          \* self.y_max: <<>> while the attribute does not exist
    parameters,     \* self.parameters: None or a parameter vector
    pc,             \* "idle", or "minimize" while fit is inside scipy's minimize
    opt,            \* locals of the fit call in progress and of its search
    ret,            \* what the last call returned or raised
    optimizer,      \* the QuantumIrrigationOptimizer instance (n_qubits, depth,
                    \* shots), NoOptimizer while none is constructed
    forecaster      \* the QuantumPestForecaster instance (n_qubits, shots),
                    \* NoForecaster while none is constructed

vars == <<num_features, num_qubits, shots, scaler, y_min, y_max, parameters,
          pc, opt, ret, optimizer, forecaster>>

(***************************************************************************)
(* Bounds of the model and the input domains.                              *)
(***************************************************************************)
NumVectors == 2               \* distinct parameter vectors the search can visit
MaxIter == 2                  \* evaluations the model follows one search for
maxiter == 50                 \* options={'maxiter': 50}
RowCounts == {1, 2}           \* rows of a training or prediction set: one row
                              \* (its targets are all equal) and two
FeatureValues == {0, 1}       \* values of a raw feature
TargetValues == {1, 3}        \* values of a training or test target
ConstructorArgs == {<<1, 1, 1>>}
    \* (num_features, num_qubits argument with 0 for None, shots)

None == 0
ParameterVectors == 1 .. NumVectors

RECURSIVE SumSeq(_)
SumSeq(s) == IF s = <<>> THEN 0 ELSE Head(s) + SumSeq(Tail(s))

RECURSIVE Pow2(_)
Pow2(n) == IF n = 0 THEN 1 ELSE 2 * Pow2(n - 1)

Min(S) == CHOOSE m \in S : \A k \in S : m <= k
Max(S) == CHOOSE m \in S : \A k \in S : m >= k
Range(s) == {s[i] : i \in DOMAIN s}

\* A row is a sequence of num_features raw features.
Rows(nf) == [1 .. nf -> FeatureValues]
Matrices(nf) == UNION {[1 .. n -> Rows(nf)] : n \in RowCounts}
Targets(n) == [1 .. n -> TargetValues]

(***************************************************************************)
(* __init__                                                                *)
(***************************************************************************)
\* self.num_qubits = num_qubits or max(4, num_features)
InitQubits(nf, nq) == IF nq # 0 THEN nq ELSE IF nf > 4 THEN nf ELSE 4

Unfitted == [fitted |-> FALSE, n |-> 0, sum |-> <<>>, sumsq |-> <<>>]
Zero == [nan |-> FALSE, v |-> 0]
NoFit == [X |-> <<>>, y |-> <<>>, y_normalized |-> <<>>, refit |-> FALSE,
          x |-> None, nfev |-> 0, best |-> None, fun |-> Zero,
          improved |-> FALSE, accepted |-> FALSE, fx |-> Zero, failed |-> <<>>, lowest |-> Zero,
          argmins |-> {}]
Ret(op, raised, value, failed, runs) ==
    [op |-> op, raised |-> raised, value |-> value, failed |-> failed,
     runs |-> runs]
NoOptimizer == [n_qubits |-> 0, depth |-> 0, shots |-> 0]
NoForecaster == [n_qubits |-> 0, shots |-> 0]

Init ==
    /\ \E a \in ConstructorArgs :
         /\ num_features = a[1]
         /\ num_qubits = InitQubits(a[1], a[2])
         /\ shots = a[3]
    /\ scaler = Unfitted
    /\ y_min = <<>>
    /\ y_max = <<>>
    /\ parameters = None
    /\ pc = "idle"
    /\ opt = NoFit
    /\ ret = Ret("init", "", <<>>, <<>>, 0)
    /\ optimizer = NoOptimizer
    /\ forecaster = NoForecaster

(***************************************************************************)
(* StandardScaler (sklearn): fit_transform resets the statistics and       *)
(* computes them from X alone; transform applies (x - mean) / scale with   *)
(* scale = 1 for a constant feature.  mean = sum / n and                   *)
(* variance = (n * sumsq - sum^2) / n^2 are kept as their integer parts.   *)
(***************************************************************************)
Column(X, j) == [i \in DOMAIN X |-> X[i][j]]
Squares(s) == [i \in DOMAIN s |-> s[i] * s[i]]

\* Mutant of fit_transform: partial_fit, which adds X to the statistics the
\* scaler already holds.
partial_fit_transform(sc, X) ==
    IF ~sc.fitted
    THEN [fitted |-> TRUE, n |-> Len(X),
          sum |-> [j \in DOMAIN X[1] |-> SumSeq(Column(X, j))],
          sumsq |-> [j \in DOMAIN X[1] |-> SumSeq(Squares(Column(X, j)))]]
    ELSE [fitted |-> TRUE, n |-> sc.n + Len(X),
          sum |-> [j \in DOMAIN X[1] |-> sc.sum[j] + SumSeq(Column(X, j))],
          sumsq |-> [j \in DOMAIN X[1] |->
                       sc.sumsq[j] + SumSeq(Squares(Column(X, j)))]]

fit_transform(sc, X) ==
    [fitted |-> TRUE, n |-> Len(X),
     sum |-> [j \in DOMAIN X[1] |-> SumSeq(Column(X, j))],
     sumsq |-> [j \in DOMAIN X[1] |-> SumSeq(Squares(Column(X, j)))]]

\* One standardised feature, kept symbolic: dev / sqrt(var), and dev / n
\* when var = 0.
transform(sc, row) ==
    [j \in DOMAIN row |->
        [dev |-> row[j] * sc.n - sc.sum[j],
         var |-> sc.n * sc.sumsq[j] - sc.sum[j] * sc.sum[j],
         n |-> sc.n]]

(***************************************************************************)
(* Circuits and the simulation backend.                                    *)
(***************************************************************************)
\* for i in range(min(len(x), self.num_qubits)): qc.ry(x[i] * np.pi, i)
_create_feature_map(x, nq) ==
    [i \in 1 .. (IF Len(x) < nq THEN Len(x) ELSE nq) |-> x[i]]

_create_circuit(x, params, nq) ==
    [num_qubits |-> nq, feature_map |-> _create_feature_map(x, nq),
     ansatz |-> params]

\* Measurement outcomes of a circuit: bitstrings of length num_qubits.
Keys(nq) == [1 .. nq -> {0, 1}]

\* Mutant of BitValue: the string is read from its last character,
\* int(bitstring[::-1], 2).
RECURSIVE BitValueReversed(_)
BitValueReversed(b) ==
    IF b = <<>> THEN 0 ELSE b[1] + 2 * BitValueReversed(Tail(b))

\* int(bitstring, 2)
RECURSIVE BitValue(_)
BitValue(b) ==
    IF b = <<>> THEN 0
    ELSE 2 * BitValue(SubSeq(b, 1, Len(b) - 1)) + b[Len(b)]

\* result.get_counts() of a run with s shots: every way s independent
\* samples can fall on the keys.
RECURSIVE Counts(_, _)
Counts(nq, s) ==
    IF s = 0 THEN {[k \in Keys(nq) |-> 0]}
    ELSE {[c EXCEPT ![k] = @ + 1] : c \in Counts(nq, s - 1), k \in Keys(nq)}

\* What backend.run(...).result() can do for a circuit: return counts, or
\* raise (ok = FALSE).
BackendRuns(circuit, s) ==
    {[ok |-> TRUE, counts |-> c] : c \in Counts(circuit.num_qubits, s)}
        \cup {[ok |-> FALSE, counts |-> [k \in Keys(circuit.num_qubits) |-> 0]]}

RECURSIVE SumOver(_, _)
SumOver(f, S) ==
    IF S = {} THEN 0
    ELSE LET k == CHOOSE k \in S : TRUE IN f[k] + SumOver(f, S \ {k})

\* Expectation values are counted in units of 1 / ExpDen, so that 0.5 and
\* every value / (2^n - 1) * count / total_shots is an integer.
ExpDen(nq, s) == 2 * s * (Pow2(nq) - 1)

\* Mutant of Fallback: the fallback returns 0.0.
FallbackZero(nq, s) == 0

\* return 0.5  # Default fallback
Fallback(nq, s) == s * (Pow2(nq) - 1)

_execute_circuit_run(run, nq, s) ==
    IF run.ok
    THEN LET total_shots == SumOver(run.counts, DOMAIN run.counts)
             weighted == SumOver([k \in DOMAIN run.counts |->
                                     BitValue(k) * run.counts[k]],
                                 DOMAIN run.counts)
         IN  (weighted * ExpDen(nq, s)) \div (total_shots * (Pow2(nq) - 1))
    ELSE Fallback(nq, s)

\* Every way self._execute_circuit(circuit) can return: the expectation it
\* computes, and whether the backend raised inside its try block.
_execute_circuit(circuit, s) ==
    {[failed |-> ~r.ok, e |-> _execute_circuit_run(r, circuit.num_qubits, s)] :
        r \in BackendRuns(circuit, s)}

(***************************************************************************)
(* IEEE 754 floats with NaN.                                               *)
(***************************************************************************)
NaN == [nan |-> TRUE, v |-> 0]
Num(v) == [nan |-> FALSE, v |-> v]
FLess(a, b) == ~a.nan /\ ~b.nan /\ a.v < b.v
FLeq(a, b) == ~a.nan /\ ~b.nan /\ a.v <= b.v

\* y_normalized = (y - y_min) / (y_max - y_min): numpy gives nan for 0 / 0
\* and raises nothing.
Normalize(y, lo, hi) ==
    [i \in DOMAIN y |->
        [nan |-> (hi - lo = 0), num |-> y[i] - lo, den |-> hi - lo]]

\* (prediction - y_target) ** 2 for prediction = e / ExpDen and
\* y_target = num / den, in units of 1 / (ExpDen * den)^2.
SquaredError(e, t, nq, s) ==
    LET d == e * t.den - t.num * ExpDen(nq, s) IN d * d

\* _cost_function(parameters, X, y) when _execute_circuit returns
\* prediction[i] for the i-th sample: total_cost / len(X), in units of
\* 1 / (len(X) * (ExpDen * den)^2).
_cost_function(prediction, y, nq, s) ==
    IF \E i \in DOMAIN y : y[i].nan
    THEN NaN
    ELSE Num(SumSeq([i \in DOMAIN y |->
                        SquaredError(prediction[i].e, y[i], nq, s)]))

\* The predictions one pass over the rows of X can make with the vector
\* params: one circuit per row, built and executed in row order.
Predictions(X, params, nq, s) ==
    {p \in [DOMAIN X -> UNION {_execute_circuit(_create_circuit(X[i], params, nq), s) :
                                 i \in DOMAIN X}] :
        \A i \in DOMAIN X :
            p[i] \in _execute_circuit(_create_circuit(X[i], params, nq), s)}

(***************************************************************************)
(* fit(X, y), up to the call of minimize (lines 113-131).                  *)
(***************************************************************************)
\* X_scaled, as the stored scaler transforms the rows of X.
X_scaled(X) == [i \in DOMAIN X |-> transform(scaler, X[i])]

\* Mutant of FitBegin: fit stores the initial point in self.parameters
\* before the search.
FitBeginStoringFirst ==
    /\ pc = "idle"
    /\ \E X \in Matrices(num_features) : \E y \in Targets(Len(X)) :
       \E initial_params \in ParameterVectors :
         /\ scaler' = fit_transform(scaler, X)
         /\ y_min' = <<Min(Range(y))>>
         /\ y_max' = <<Max(Range(y))>>
         /\ parameters' = initial_params
         /\ opt' = [NoFit EXCEPT
                      !.X = X,
                      !.y = y,
                      !.refit = (parameters # None),
                      !.y_normalized = Normalize(y, Min(Range(y)), Max(Range(y))),
                      !.x = initial_params]
    /\ pc' = "minimize"
    /\ ret' = Ret("fit", "", <<>>, <<>>, 0)
    /\ UNCHANGED <<optimizer, forecaster>>
    /\ UNCHANGED <<num_features, num_qubits, shots>>

FitBegin ==
    /\ pc = "idle"
    /\ \E X \in Matrices(num_features) : \E y \in Targets(Len(X)) :
       \E initial_params \in ParameterVectors :
         /\ scaler' = fit_transform(scaler, X)
         /\ y_min' = <<Min(Range(y))>>
         /\ y_max' = <<Max(Range(y))>>
         /\ opt' = [NoFit EXCEPT
                      !.X = X,
                      !.y = y,
                      !.refit = (parameters # None),
                      !.y_normalized = Normalize(y, Min(Range(y)), Max(Range(y))),
                      !.x = initial_params]
    /\ pc' = "minimize"
    /\ ret' = Ret("fit", "", <<>>, <<>>, 0)
    /\ UNCHANGED <<optimizer, forecaster>>
    /\ UNCHANGED <<num_features, num_qubits, shots, parameters>>

(***************************************************************************)
(* scipy.optimize.minimize(method='COBYLA', options={'maxiter': ...}): a   *)
(* derivative-free search that calls the cost function once per trial      *)
(* point, at most maxiter times, starts at initial_params, may stop        *)
(* earlier, and returns the best vertex it holds.                          *)
(***************************************************************************)
\* The search's best vertex after the trial point x was evaluated to f.
Accepts(o, f) == o.nfev = 0 \/ FLess(f, o.fun)

\* Mutant of WithinBudget: no maxiter option is passed.
BudgetIgnored(o) == TRUE

\* options={'maxiter': 50}: the search asks for another evaluation only
\* while fewer than maxiter were made. The model follows a search for
\* MaxIter evaluations, so its budget is the smaller of the two.
SearchBudget == IF maxiter < MaxIter THEN maxiter ELSE MaxIter
WithinBudget(o) == o.nfev < SearchBudget

\* One callback of the cost function that returns.
CostEval ==
    /\ pc = "minimize"
    /\ WithinBudget(opt)
    /\ \E x \in (IF opt.nfev = 0 THEN {opt.x} ELSE ParameterVectors) :
       \E prediction \in Predictions(X_scaled(opt.X), x, num_qubits, shots) :
         LET f == _cost_function(prediction, opt.y_normalized, num_qubits, shots)
         IN  opt' = [opt EXCEPT
                       !.x = x,
                       !.nfev = @ + 1,
                       !.fx = f,
                       !.failed = [i \in DOMAIN prediction |-> prediction[i].failed],
                       !.best = IF Accepts(opt, f) THEN x ELSE @,
                       !.fun = IF Accepts(opt, f) THEN f ELSE @,
                       !.improved = @ \/ (opt.nfev > 0 /\ Accepts(opt, f)),
                       !.accepted = Accepts(opt, f),
                       !.lowest = IF opt.nfev = 0 \/ FLess(f, @) THEN f ELSE @,
                       !.argmins = IF opt.nfev = 0 \/ FLess(f, opt.lowest)
                                   THEN {x}
                                   ELSE IF FLeq(f, opt.lowest) THEN @ \cup {x}
                                   ELSE @]
    /\ ret' = [ret EXCEPT !.runs = @ + Len(opt.y_normalized)]
    /\ UNCHANGED <<optimizer, forecaster>>
    /\ UNCHANGED <<num_features, num_qubits, shots, scaler, y_min, y_max,
                   parameters, pc>>

\* One callback of the cost function that raises outside _execute_circuit's
\* try block (building or binding the circuit, line 99): neither
\* _cost_function, minimize nor fit catches it.
CostRaise ==
    /\ pc = "minimize"
    /\ WithinBudget(opt)
    /\ pc' = "idle"
    /\ opt' = NoFit
    /\ ret' = [ret EXCEPT !.raised = "Exception",
                          !.value = [nfev |-> opt.nfev, refit |-> opt.refit,
                                     improved |-> opt.improved]]
    /\ UNCHANGED <<optimizer, forecaster>>
    /\ UNCHANGED <<num_features, num_qubits, shots, scaler, y_min, y_max,
                   parameters>>

\* Mutant of StoredParameters: the last trial point is stored.
StoredLastTrial(o) == o.x

\* self.parameters = result.x
StoredParameters(o) == o.best

\* minimize returns and fit stores the result (lines 133-136).
FitReturn ==
    /\ pc = "minimize"
    /\ opt.nfev >= 1
    /\ parameters' = StoredParameters(opt)
    /\ pc' = "idle"
    /\ opt' = NoFit
    /\ ret' = [ret EXCEPT !.value = [nfev |-> opt.nfev, refit |-> opt.refit,
                                     improved |-> opt.improved]]
    /\ UNCHANGED <<optimizer, forecaster>>
    /\ UNCHANGED <<num_features, num_qubits, shots, scaler, y_min, y_max>>

(***************************************************************************)
(* predict(X)                                                              *)
(***************************************************************************)
\* Mutant of NotTrained: the guard looks at the scaler, not at the
\* parameter vector.
NotTrainedByScaler(params) == ~scaler.fitted

\* if self.parameters is None: raise ValueError(...)
NotTrained(params) == params = None

\* Mutant of Denormalize: prediction * self.y_max + self.y_min.
DenormalizeByMax(e, lo, hi, nq, s) == e * hi + lo * ExpDen(nq, s)

\* denormalized = prediction * (self.y_max - self.y_min) + self.y_min, in
\* units of 1 / ExpDen.
Denormalize(e, lo, hi, nq, s) == e * (hi - lo) + lo * ExpDen(nq, s)

\* Mutant of PredictResults: the predictions are returned in reverse row
\* order.
PredictResultsReversed(X) ==
    {[predictions |-> [i \in DOMAIN X |->
                          Denormalize(p[Len(X) + 1 - i].e, y_min[1], y_max[1],
                                      num_qubits, shots)],
      failed |-> [i \in DOMAIN X |-> p[i].failed]] :
        p \in Predictions(X_scaled(X), parameters, num_qubits, shots)}

\* The arrays predict(X) can return, with the rows whose backend run failed.
PredictResults(X) ==
    {[predictions |-> [i \in DOMAIN X |->
                          Denormalize(p[i].e, y_min[1], y_max[1],
                                      num_qubits, shots)],
      failed |-> [i \in DOMAIN X |-> p[i].failed]] :
        p \in Predictions(X_scaled(X), parameters, num_qubits, shots)}

\* Mutant of predict: it refits the scaler on X (fit_transform for
\* transform).
predict_refitting ==
    /\ pc = "idle"
    /\ \E X \in Matrices(num_features) :
         IF NotTrained(parameters)
         THEN /\ ret' = Ret("predict", "ValueError", <<>>, <<>>, 0)
              /\ scaler' = scaler
         ELSE /\ scaler' = fit_transform(scaler, X)
              /\ \E r \in PredictResults(X) :
                   ret' = Ret("predict", "", r.predictions, r.failed, Len(X))
    /\ UNCHANGED <<optimizer, forecaster>>
    /\ UNCHANGED <<num_features, num_qubits, shots, y_min, y_max,
                   parameters, pc, opt>>

predict ==
    /\ pc = "idle"
    /\ \E X \in Matrices(num_features) :
         IF NotTrained(parameters)
         THEN ret' = Ret("predict", "ValueError", <<>>, <<>>, 0)
         ELSE \/ \E r \in PredictResults(X) :
                   ret' = Ret("predict", "", r.predictions, r.failed, Len(X))
              \* building the circuit of row k raises (line 147 is outside
              \* the try block)
              \/ \E k \in DOMAIN X :
                   ret' = Ret("predict", "Exception", <<>>, <<>>, k - 1)
    /\ UNCHANGED <<optimizer, forecaster>>
    /\ UNCHANGED <<num_features, num_qubits, shots, scaler, y_min, y_max,
                   parameters, pc, opt>>

(***************************************************************************)
(* score(X, y)                                                             *)
(***************************************************************************)
\* np.sum((y - predictions) ** 2), in units of 1 / ExpDen^2
SSRes(y, predictions, nq, s) ==
    SumSeq([i \in DOMAIN y |->
              (y[i] * ExpDen(nq, s) - predictions[i])
                  * (y[i] * ExpDen(nq, s) - predictions[i])])

\* np.sum((y - np.mean(y)) ** 2), in units of 1 / len(y)^2
SSTot(y) ==
    SumSeq([i \in DOMAIN y |->
              (y[i] * Len(y) - SumSeq(y)) * (y[i] * Len(y) - SumSeq(y))])

\* Mutant of R2: the division is not guarded.
R2Unguarded(ss_res, ss_tot, m, nq, s) ==
    [num |-> ss_tot * ExpDen(nq, s) * ExpDen(nq, s) - ss_res * m * m,
     den |-> ss_tot * ExpDen(nq, s) * ExpDen(nq, s)]

\* return 1 - (ss_res / ss_tot) if ss_tot > 0 else 0.0, as a fraction
R2(ss_res, ss_tot, m, nq, s) ==
    IF ss_tot > 0
    THEN [num |-> ss_tot * ExpDen(nq, s) * ExpDen(nq, s) - ss_res * m * m,
          den |-> ss_tot * ExpDen(nq, s) * ExpDen(nq, s)]
    ELSE [num |-> 0, den |-> 1]

score ==
    /\ pc = "idle"
    /\ \E X \in Matrices(num_features) : \E y \in Targets(Len(X)) :
         IF NotTrained(parameters)
         THEN ret' = Ret("score", "ValueError", <<>>, <<>>, 0)
         ELSE \/ \E r \in PredictResults(X) :
                   LET ss_res == SSRes(y, r.predictions, num_qubits, shots)
                       ss_tot == SSTot(y)
                   IN  ret' = Ret("score", "",
                                  [score |-> R2(ss_res, ss_tot, Len(y),
                                                num_qubits, shots),
                                   y |-> y, ss_res |-> ss_res],
                                  r.failed, Len(X))
              \/ \E k \in DOMAIN X :
                   ret' = Ret("score", "Exception", <<>>, <<>>, k - 1)
    /\ UNCHANGED <<optimizer, forecaster>>
    /\ UNCHANGED <<num_features, num_qubits, shots, scaler, y_min, y_max,
                   parameters, pc, opt>>

Next == FitBegin \/ CostEval \/ CostRaise \/ FitReturn \/ predict \/ score

Spec == Init /\ [][Next]_vars

(***************************************************************************)
(* Properties.                                                             *)
(***************************************************************************)
Idle == pc = "idle"
Returned(op) == Idle /\ ret.op = op /\ ret.raised = ""
\* the step in which minimize returns and fit stores its result
FitReturns == pc = "minimize" /\ pc' = "idle" /\ ret'.raised = ""
\* a step of predict
PredictStep == pc = "idle" /\ pc' = "idle" /\ ret'.op = "predict"
AllEqual(y) == \A i, j \in DOMAIN y : y[i] = y[j]
Degenerate == y_min # <<>> /\ y_min = y_max

\* C1: predict() on a model that holds no parameter vector raises the
\* not-trained error, returns no predictions and runs no circuit.
C1_PredictUntrainedFails ==
    (ret.op = "predict" /\ parameters = None)
        => (ret.raised = "ValueError" /\ ret.value = <<>> /\ ret.runs = 0)

\* predict was called on a model whose first fit raised: the scaler and the
\* target range are set, the parameter vector is not.
C1_Witness ==
    ret.op = "predict" /\ parameters = None /\ scaler.fitted
        /\ ret.raised = "ValueError"

\* C2: when a fit returns, also on a model that was trained before, the
\* scaler statistics and the target range are those of this fit's X and y
\* alone and the parameter vector is the result of this fit's search.
C2_FitOverwrites ==
    [][FitReturns =>
          /\ scaler' = [fitted |-> TRUE, n |-> Len(opt.X),
                        sum |-> [j \in DOMAIN opt.X[1] |->
                                   SumSeq(Column(opt.X, j))],
                        sumsq |-> [j \in DOMAIN opt.X[1] |->
                                     SumSeq(Squares(Column(opt.X, j)))]]
          /\ y_min' = <<Min(Range(opt.y))>>
          /\ y_max' = <<Max(Range(opt.y))>>
          /\ parameters' = opt.best
          /\ opt.best \in opt.argmins]_vars

\* a second fit has returned on a trained model
C2_Witness == Returned("fit") /\ ret.value.refit

C4_ConstantTargets ==
    /\ (Returned("fit") /\ Degenerate) => parameters # None
    /\ (Returned("predict") /\ Degenerate)
          => \A i \in DOMAIN ret.value :
                ret.value[i] = y_min[1] * ExpDen(num_qubits, shots)

\* predict returned two predictions on a model trained on constant targets,
\* one of them from a failed backend run
C4_Witness ==
    /\ Returned("predict") /\ Degenerate /\ parameters # None
    /\ Len(ret.value) = 2
    /\ ret.failed[1] /\ ~ret.failed[2]

\* C5: a fit whose training targets are all equal evaluates the cost
\* function (and runs the backend) not once.
C5_DegenerateSkipsSearch ==
    (ret.op = "fit" /\ Degenerate) => (opt.nfev = 0 /\ ret.runs = 0)

\* C6 as claimed: score never raises, in any state of the model.
C6_ScoreNeverRaises == ret.op = "score" => ret.raised = ""

\* C6 as amended: score raises the not-trained error on a model without a
\* parameter vector; on a model with one it raises only what predict raises,
\* and when predict returns it returns 0.0 if all targets are equal and
\* 1 - ss_res / ss_tot otherwise.
C6_ScoreGuarded ==
    ret.op = "score" =>
        IF parameters = None
        THEN ret.raised = "ValueError"
        ELSE /\ ret.raised \in {"", "Exception"}
             /\ ret.raised = "" =>
                  LET y == ret.value.y
                      d == ExpDen(num_qubits, shots)
                      tot == SumSeq([i \in DOMAIN y |->
                                (y[i] * Len(y) - SumSeq(y))
                                    * (y[i] * Len(y) - SumSeq(y))])
                  IN  IF AllEqual(y)
                      THEN ret.value.score = [num |-> 0, den |-> 1]
                      ELSE /\ tot > 0
                           /\ ret.value.score =
                                [num |-> tot * d * d
                                           - ret.value.ss_res * Len(y) * Len(y),
                                 den |-> tot * d * d]

\* score returned 0.0 for equal targets on a trained model
C6_Witness ==
    /\ Returned("score") /\ parameters # None
    /\ Len(ret.value.y) = 2 /\ AllEqual(ret.value.y)
    /\ ret.value.ss_res > 0

\* C7: the search never makes more than maxiter cost evaluations; once the
\* budget is used no further evaluation is possible and minimize returns;
\* a fit that returns has stored a parameter vector.
C7_SearchBounded ==
    /\ opt.nfev <= SearchBudget
    /\ (pc = "minimize" /\ opt.nfev = SearchBudget)
          => (~ENABLED CostEval /\ ENABLED FitReturn)
    /\ Returned("fit")
          => (parameters # None /\ ret.value.nfev <= SearchBudget)

\* a fit returned after the whole budget without any improvement on the
\* initial point, on targets that are not all equal
C7_Witness ==
    /\ Returned("fit") /\ ret.value.nfev = SearchBudget /\ ~ret.value.improved
    /\ ~Degenerate /\ parameters # None

C9_BackendFailureAbsorbed ==
    LET d == ExpDen(num_qubits, shots) IN
    /\ (Returned("predict") /\ parameters # None)
          => \A i \in DOMAIN ret.value :
                ret.failed[i] =>
                    2 * ret.value[i] = d * (y_max[1] - y_min[1]) + 2 * y_min[1] * d
    /\ (pc = "minimize" /\ opt.nfev >= 1 /\ \E i \in DOMAIN opt.failed : opt.failed[i])
          => /\ ret.raised = ""
             /\ ENABLED FitReturn
             /\ \/ opt.fx.nan /\ Degenerate
                \/ /\ ~opt.fx.nan
                   /\ \E e \in [DOMAIN opt.failed -> 0 .. d] :
                        /\ \A i \in DOMAIN e : opt.failed[i] => 2 * e[i] = d
                        /\ opt.fx.v = SumSeq([i \in DOMAIN e |->
                              (e[i] * opt.y_normalized[i].den
                                  - opt.y_normalized[i].num * d)
                              * (e[i] * opt.y_normalized[i].den
                                  - opt.y_normalized[i].num * d)])

\* the backend failed for every sample of the last evaluation of a search
\* that used its whole budget, with a cost that is a number
C9_Witness ==
    /\ pc = "minimize" /\ opt.nfev = SearchBudget /\ ~opt.fx.nan
    /\ \A i \in DOMAIN opt.failed : opt.failed[i]

\* C10: an exception raised inside the cost function never ends the fit, and
\* an evaluation in which one was raised is rejected: its trial point does
\* not become the search's best point.
C10_CostExceptionsRejected ==
    /\ ret.op = "fit" => ret.raised = ""
    /\ (pc = "minimize" /\ opt.nfev >= 2
          /\ \E i \in DOMAIN opt.failed : opt.failed[i])
          => ~opt.accepted

\* C11: two runs of fit followed by predict on the same training set give
\* identical outputs.  Neither the constructor, fit nor predict takes a
\* seed and the state of the instance holds none, so two runs agree only if
\* the initial point fit draws is the only one it can draw and if predict,
\* from one trained state and for one input, has one possible output.
C11_SeededRunsAgree ==
    /\ (pc = "minimize" /\ opt.nfev = 0)
          => \A initial_params \in ParameterVectors : opt.x = initial_params
    /\ (Idle /\ parameters # None)
          => \A X \in Matrices(num_features) :
                \A r1, r2 \in PredictResults(X) :
                    r1.predictions = r2.predictions

(***************************************************************************)
(* The allocator (quantum/algorithms/irrigation_optimizer.py) and the      *)
(* classifier (quantum/algorithms/pest_forecaster.py).  Each is built from *)
(* a settings dictionary and then called; both run one circuit per call on *)
(* an AerSimulator, which is not simulated: a run returns any dictionary   *)
(* of counts over the circuit's outcomes that sums to the shots, or        *)
(* raises.                                                                 *)
(*                                                                         *)
(* A dictionary of counts is a sequence of [state, n] entries in its       *)
(* iteration order, with distinct states and n > 0; a state is the outcome *)
(* string, a sequence of bits read from its first character.  A risk score *)
(* is the fraction [num, den]; an allocated amount is counted in tenths.   *)
(***************************************************************************)
MaxOutcomes == 2              \* distinct outcomes one run is followed for
ZoneCounts == {1, 2}          \* lengths of a zone list
Requirements == {5, 10}       \* zone['requirement']
Settings ==
    {[n_qubits |-> n, circuit_depth |-> 1, shots |-> 2] : n \in {1, 2}}

regression == <<num_features, num_qubits, shots, scaler, y_min, y_max,
                parameters, pc, opt>>

\* settings.get(key, default)
Get(settings, key, default) ==
    IF key \in DOMAIN settings THEN settings[key] ELSE default

\* Injective sequences of length l over the outcomes of nq qubits.
Orderings(nq, l) ==
    {q \in [1 .. l -> Keys(nq)] : \A i, j \in 1 .. l : i # j => q[i] # q[j]}

\* The ways s shots fall on l observed outcomes.
Splits(l, s) == {n \in [1 .. l -> 1 .. s] : SumSeq(n) = s}

\* result.get_counts(0) of a run of a circuit of nq qubits with s shots.
get_counts(nq, s) ==
    UNION {{[i \in 1 .. l |-> [state |-> q[i], n |-> n[i]]] :
               q \in Orderings(nq, l), n \in Splits(l, s)} :
           l \in 1 .. MaxOutcomes}

\* self.simulator.run(t_circuit, shots=...).result(): counts, or an
\* exception (ok = FALSE).
SimulatorRuns(circuit, s) ==
    {[ok |-> TRUE, counts |-> c] : c \in get_counts(circuit.num_qubits, s)}
        \cup {[ok |-> FALSE, counts |-> <<>>]}

(***************************************************************************)
(* QuantumIrrigationOptimizer                                              *)
(***************************************************************************)
QuantumIrrigationOptimizer(settings) ==
    [n_qubits |-> Get(settings, "n_qubits", 5),
     depth |-> Get(settings, "circuit_depth", 2),
     shots |-> Get(settings, "shots", 1024)]

\* optimizer = QuantumIrrigationOptimizer(settings)
NewOptimizer ==
    /\ pc = "idle"
    /\ \E settings \in Settings :
         optimizer' = QuantumIrrigationOptimizer(settings)
    /\ ret' = Ret("QuantumIrrigationOptimizer", "", <<>>, <<>>, 0)
    /\ UNCHANGED <<regression, forecaster>>

\* QuantumCircuit(n_qubits) with self.depth cost and mixer layers, measured
\* on all qubits.
_create_qaoa_circuit(o, n_qubits) == [num_qubits |-> n_qubits, layers |-> o.depth]

ZoneLists ==
    UNION {[1 .. n -> {[requirement |-> r] : r \in Requirements}] : n \in ZoneCounts}

\* Mutant of n_zones: the circuit has the configured number of qubits.
n_qubits_configured(o, zone_data) == o.n_qubits

\* n_zones = len(zone_data)
n_zones(o, zone_data) == Len(zone_data)

\* Mutant of run_shots: the run is made with one shot.
run_single_shot(o) == 1

\* self.simulator.run(t_circuit, shots=self.shots)
run_shots(o) == o.shots

\* Mutant of best_state: of the keys with the largest count, the one met
\* last.
best_state_last(counts) ==
    LET i == CHOOSE i \in DOMAIN counts :
                 /\ \A j \in DOMAIN counts : counts[j].n <= counts[i].n
                 /\ \A j \in (i + 1) .. Len(counts) : counts[j].n < counts[i].n
    IN  counts[i].state

\* max(counts, key=counts.get): the first key, in iteration order, whose
\* count is the largest.
best_state(counts) ==
    LET i == CHOOSE i \in DOMAIN counts :
                 /\ \A j \in DOMAIN counts : counts[j].n <= counts[i].n
                 /\ \A j \in 1 .. (i - 1) : counts[j].n < counts[i].n
    IN  counts[i].state

\* Mutant of optimal_allocation: zip(zone_data, reversed(best_state)).
optimal_allocation_reversed(zone_data, state) ==
    [i \in 1 .. (IF Len(zone_data) < Len(state) THEN Len(zone_data) ELSE Len(state)) |->
        IF state[Len(state) + 1 - i] = 1 THEN zone_data[i].requirement * 8 ELSE 0]

\* [zone['requirement'] * 0.8 if bit == '1' else 0
\*  for zone, bit in zip(zone_data, best_state)], in tenths
optimal_allocation(zone_data, state) ==
    [i \in 1 .. (IF Len(zone_data) < Len(state) THEN Len(zone_data) ELSE Len(state)) |->
        IF state[i] = 1 THEN zone_data[i].requirement * 8 ELSE 0]

\* Mutant of optimize: the call adapts the instance to the zone list
\* (self.n_qubits = n_zones).
optimize_resizing ==
    /\ pc = "idle"
    /\ optimizer # NoOptimizer
    /\ \E zone_data \in ZoneLists :
         /\ optimizer' = [optimizer EXCEPT !.n_qubits = Len(zone_data)]
         /\ LET circuit == _create_qaoa_circuit(optimizer, n_zones(optimizer, zone_data))
            IN  \E run \in SimulatorRuns(circuit, run_shots(optimizer)) :
                  IF run.ok
                  THEN ret' = Ret("optimize", "",
                                  [zone_data |-> zone_data,
                                   optimal_allocation |->
                                       optimal_allocation(zone_data,
                                                          best_state(run.counts)),
                                   counts |-> run.counts,
                                   circuit |-> circuit],
                                  <<>>, 1)
                  ELSE ret' = Ret("optimize", "Exception",
                                  [zone_data |-> zone_data], <<>>, 1)
    /\ UNCHANGED <<regression, forecaster>>

optimize ==
    /\ pc = "idle"
    /\ optimizer # NoOptimizer
    /\ \E zone_data \in ZoneLists :
         LET circuit == _create_qaoa_circuit(optimizer, n_zones(optimizer, zone_data))
         IN  \E run \in SimulatorRuns(circuit, run_shots(optimizer)) :
               IF run.ok
               THEN ret' = Ret("optimize", "",
                               [zone_data |-> zone_data,
                                optimal_allocation |->
                                    optimal_allocation(zone_data, best_state(run.counts)),
                                counts |-> run.counts,
                                circuit |-> circuit],
                               <<>>, 1)
               ELSE ret' = Ret("optimize", "Exception",
                               [zone_data |-> zone_data], <<>>, 1)
    /\ UNCHANGED <<regression, optimizer, forecaster>>

(***************************************************************************)
(* QuantumPestForecaster                                                   *)
(***************************************************************************)
QuantumPestForecaster(settings) ==
    [n_qubits |-> 3, shots |-> Get(settings, "shots", 1024)]

\* forecaster = QuantumPestForecaster(settings)
NewForecaster ==
    /\ pc = "idle"
    /\ \E settings \in Settings :
         forecaster' = QuantumPestForecaster(settings)
    /\ ret' = Ret("QuantumPestForecaster", "", <<>>, <<>>, 0)
    /\ UNCHANGED <<regression, optimizer>>

\* np.array([temp, humidity, rainfall]), and arrays of two and four entries
FeatureVectors == {<<28, 75, 20>>, <<28, 75>>, <<28, 75, 20, 20>>}
\* the stage the caller selected; forecast has no parameter for it
CropStages == {"Vegetative", "Flowering"}

\* A Python value that is a float or a string.
PyFloat(x) == [is_str |-> FALSE, str |-> "", num |-> x]
PyStr(s) == [is_str |-> TRUE, str |-> s, num |-> 0]

\* Mutant of feature_count_differs: only too many features are refused.
feature_count_exceeds(features, n_qubits) == Len(features) > n_qubits

\* if len(features) != self.n_qubits: raise ValueError(...)
feature_count_differs(features, n_qubits) == Len(features) # n_qubits

\* features / np.array([45.0, 100.0, 100.0])
normalized_features(features) ==
    [i \in DOMAIN features |->
        [num |-> features[i], den |-> <<45, 100, 100>>[i]]]

\* QuantumCircuit(self.n_qubits) with one ry and one rz per feature, a cx
\* chain, measured on all qubits.
_create_feature_map_circuit(f, features) ==
    [num_qubits |-> f.n_qubits, encoding |-> features]

\* state.count('1')
RECURSIVE num_ones(_)
num_ones(state) ==
    IF state = <<>> THEN 0 ELSE Head(state) + num_ones(Tail(state))

\* Mutant of risk_score: the regression model's aggregation, the outcome
\* read as an integer over 2^n - 1.
risk_score_by_value(counts, n_qubits) ==
    [num |-> SumSeq([i \in DOMAIN counts |->
                        BitValue(counts[i].state) * counts[i].n]),
     den |-> (Pow2(n_qubits) - 1) * SumSeq([i \in DOMAIN counts |-> counts[i].n])]

\* risk_value = sum of (num_ones / self.n_qubits) * num_shots;
\* risk_score = risk_value / total_shots
risk_score(counts, n_qubits) ==
    [num |-> SumSeq([i \in DOMAIN counts |->
                        num_ones(counts[i].state) * counts[i].n]),
     den |-> n_qubits * SumSeq([i \in DOMAIN counts |-> counts[i].n])]

\* score > a / b, for a score with a positive denominator
Exceeds(risk, a, b) == risk.num * b > a * risk.den

\* Mutant of risk_level: the thresholds are inclusive.
risk_level_inclusive(risk) ==
    IF risk.num * 20 >= 13 * risk.den THEN "High Risk"
    ELSE IF risk.num * 20 >= 7 * risk.den THEN "Medium Risk"
    ELSE "Low Risk"

\* if risk_score > 0.65 ... elif risk_score > 0.35 ... else ...
risk_level(risk) ==
    IF Exceeds(risk, 13, 20) THEN "High Risk"
    ELSE IF Exceeds(risk, 7, 20) THEN "Medium Risk"
    ELSE "Low Risk"

stage_recs ==
    [Germination |-> "Protect seedlings with row covers if high risk is detected.",
     Flowering |-> "Be cautious with any treatments to protect vital pollinators.",
     Maturation |-> "Ensure proper storage plans to prevent post-harvest infestation."]

\* The score-tier rule sets of _generate_recommendations.
ActionRequired ==
    <<"**Action Required**: Immediate field inspection recommended.",
      "Deploy pheromone traps in high-risk zones.",
      "Consider targeted organic pesticide application.">>
Warning ==
    <<"**Warning**: Increase monitoring frequency to daily.",
      "Focus on vulnerable crop sections (young leaves).",
      "Prepare mitigation resources.">>
AllClear ==
    <<"**All Clear**: Conditions are favorable. Continue standard monitoring.",
      "Maintain beneficial insect habitats to support natural pest control.">>

_generate_recommendations(risk, crop_stage) ==
    LET recommendations ==
            IF Exceeds(risk, 7, 10) THEN ActionRequired
            ELSE IF Exceeds(risk, 4, 10) THEN Warning
            ELSE AllClear
    IN  IF crop_stage.is_str /\ crop_stage.str \in DOMAIN stage_recs
        THEN Append(recommendations, stage_recs[crop_stage.str])
        ELSE recommendations

forecast ==
    /\ pc = "idle"
    /\ forecaster # NoForecaster
    /\ \E features \in FeatureVectors : \E crop_stage \in CropStages :
         IF feature_count_differs(features, forecaster.n_qubits)
         THEN ret' = Ret("forecast", "ValueError",
                         [features |-> features, crop_stage |-> crop_stage],
                         <<>>, 0)
         ELSE LET circuit == _create_feature_map_circuit(
                                 forecaster, normalized_features(features))
              IN  \E run \in SimulatorRuns(circuit, run_shots(forecaster)) :
                    IF run.ok
                    THEN LET risk == risk_score(run.counts, forecaster.n_qubits)
                         IN  ret' = Ret("forecast", "",
                                        [features |-> features,
                                         crop_stage |-> crop_stage,
                                         risk_score |-> risk,
                                         risk_level |-> risk_level(risk),
                                         recommendations |->
                                             _generate_recommendations(
                                                 risk, PyFloat(features[Len(features)])),
                                         circuit |-> circuit,
                                         counts |-> run.counts],
                                        <<>>, 1)
                    ELSE ret' = Ret("forecast", "Exception",
                                    [features |-> features,
                                     crop_stage |-> crop_stage],
                                    <<>>, 1)
    /\ UNCHANGED <<regression, optimizer, forecaster>>

\* The risk scores k / 60 of runs with 20 shots, which the model does not
\* enumerate: k of the 60 sampled bits are 1.  21 / 60 is 0.35, 24 / 60 is
\* 0.4, 39 / 60 is 0.65 and 42 / 60 is 0.7.
BoundaryScores ==
    {[num |-> k, den |-> 60] : k \in {0, 21, 22, 24, 25, 39, 40, 42, 43, 60}}

\* forecast from the classification on (lines 97-107), for the score of
\* such a run.
classify ==
    /\ pc = "idle"
    /\ forecaster # NoForecaster
    /\ \E features \in {f \in FeatureVectors :
                           ~feature_count_differs(f, forecaster.n_qubits)} :
       \E crop_stage \in CropStages : \E risk \in BoundaryScores :
         ret' = Ret("classify", "",
                    [features |-> features,
                     crop_stage |-> crop_stage,
                     risk_score |-> risk,
                     risk_level |-> risk_level(risk),
                     recommendations |->
                         _generate_recommendations(
                             risk, PyFloat(features[Len(features)]))],
                    <<>>, 0)
    /\ UNCHANGED <<regression, optimizer, forecaster>>

NextAdvisors == NewOptimizer \/ optimize \/ NewForecaster \/ forecast \/ classify

SpecAdvisors == Init /\ [][NextAdvisors]_vars

(***************************************************************************)
(* Properties of the allocator and the classifier.                         *)
(***************************************************************************)
\* the last call was op and it returned
Gave(op) == ret.op = op /\ ret.raised = ""

\* C12: the counts that optimize and forecast return sum to the shots the
\* instance was configured with, and every key of them, the maximum-count
\* key included, is a string of bits as long as the returned circuit has
\* qubits.
C12_DistributionsWellFormed ==
    (Gave("optimize") \/ Gave("forecast")) =>
        LET counts == ret.value.counts
            width == ret.value.circuit.num_qubits
            configured == IF ret.op = "optimize" THEN optimizer.shots
                          ELSE forecaster.shots
        IN  /\ SumSeq([i \in DOMAIN counts |-> counts[i].n]) = configured
            /\ \A i \in DOMAIN counts :
                 /\ counts[i].n > 0
                 /\ counts[i].state \in [1 .. width -> {0, 1}]
            /\ \E i \in DOMAIN counts :
                 /\ counts[i].state = best_state(counts)
                 /\ Len(counts[i].state) = width

\* optimize returned, for two zones, counts with two outcomes of one shot
\* each
C12_Witness ==
    /\ Gave("optimize")
    /\ Len(ret.value.zone_data) = 2
    /\ Len(ret.value.counts) = 2
    /\ ret.value.counts[1].n = ret.value.counts[2].n

(***************************************************************************)
(* The expectation estimate of the regression model, on instances with up  *)
(* to three qubits: calls of self._execute_circuit(circuit) alone.         *)
(***************************************************************************)
MaxShots == 3                 \* shots of an instance
EstimatorArgs == {<<1, nq, s>> : nq \in 1 .. 3, s \in 1 .. MaxShots}

\* The state after CustomQuantumYieldPredictor(a[1], a[2] or None, a[3]).
Constructed(a) ==
    /\ num_features = a[1]
    /\ num_qubits = InitQubits(a[1], a[2])
    /\ shots = a[3]
    /\ scaler = Unfitted
    /\ y_min = <<>>
    /\ y_max = <<>>
    /\ parameters = None
    /\ pc = "idle"
    /\ opt = NoFit
    /\ ret = Ret("init", "", <<>>, <<>>, 0)
    /\ optimizer = NoOptimizer
    /\ forecaster = NoForecaster

InitEstimator == \E a \in EstimatorArgs : Constructed(a)

\* self._execute_circuit(self._create_circuit(x, parameters)) for one row
\* and one parameter vector.
execute_circuit ==
    /\ pc = "idle"
    /\ \E x \in Rows(num_features) : \E params \in ParameterVectors :
       \E run \in BackendRuns(_create_circuit(x, params, num_qubits), shots) :
         ret' = Ret("_execute_circuit", "",
                    [counts |-> run.counts,
                     expectation |-> _execute_circuit_run(run, num_qubits, shots)],
                    <<~run.ok>>, 1)
    /\ UNCHANGED <<num_features, num_qubits, shots, scaler, y_min, y_max,
                   parameters, pc, opt, optimizer, forecaster>>

NextEstimator == execute_circuit

SpecEstimator == InitEstimator /\ [][NextEstimator]_vars

\* C13: for counts with keys of num_qubits bits and a positive total the
\* expectation is the count-weighted average of int(key, 2) / (2^n - 1): it
\* lies in [0, 1], and with one qubit it is the fraction of the shots that
\* gave '1' (an outcome contributes 0 or 1).
C13_ExpectationIsWeightedAverage ==
    (ret.op = "_execute_circuit" /\ ~ret.failed[1]) =>
        LET counts == ret.value.counts
            e == ret.value.expectation
            d == ExpDen(num_qubits, shots)
            total == SumOver(counts, DOMAIN counts)
            int(k) == SumSeq([i \in DOMAIN k |-> k[i] * Pow2(Len(k) - i)])
        IN  /\ total > 0
            /\ \A k \in DOMAIN counts : Len(k) = num_qubits
            /\ e * total * (Pow2(num_qubits) - 1)
                  = d * SumOver([k \in DOMAIN counts |-> int(k) * counts[k]],
                                DOMAIN counts)
            /\ 0 <= e /\ e <= d
            /\ num_qubits = 1 =>
                 /\ \A k \in DOMAIN counts : int(k) \in {0, 1}
                 /\ e * total = d * counts[<<1>>]

\* an estimate strictly between 0 and 1 from three shots on two qubits that
\* gave '01' twice and '11' once: (2 * 1/3 + 1 * 3/3) / 3 = 5/9
C13_Witness ==
    /\ ret.op = "_execute_circuit" /\ ~ret.failed[1]
    /\ num_qubits = 2 /\ shots = 3
    /\ ret.value.counts[<<0, 1>>] = 2 /\ ret.value.counts[<<1, 1>>] = 1
    /\ 9 * ret.value.expectation = 5 * ExpDen(num_qubits, shots)

\* C14: the allocation optimize returns has one entry per zone of
\* zone_data, in the order of the zones, and entry i is 0 or 0.8 times the
\* requirement of zone i (in tenths: 8 times).
C14_AllocationAligned ==
    Gave("optimize") =>
        LET allocation == ret.value.optimal_allocation
            zone_data == ret.value.zone_data
        IN  /\ Len(allocation) = Len(zone_data)
            /\ \A i \in DOMAIN zone_data :
                 allocation[i] \in {0, zone_data[i].requirement * 8}

\* two zones with requirements 5 and 10: the first gets nothing, the second
\* 8.0
C14_Witness ==
    /\ Gave("optimize")
    /\ ret.value.zone_data = <<[requirement |-> 5], [requirement |-> 10]>>
    /\ ret.value.optimal_allocation = <<0, 80>>

\* C15: optimize on a zone list whose length differs from the n_qubits the
\* allocator was constructed with raises a dimension error, runs no circuit
\* and so returns no circuit of another width.
C15_ZoneCountChecked ==
    (ret.op = "optimize" /\ Len(ret.value.zone_data) # optimizer.n_qubits)
        => (ret.raised = "DimensionError" /\ ret.runs = 0)

\* C16: the classifier has three qubits, and forecast on a feature array
\* that does not have three entries raises ValueError without building or
\* running a circuit.
C16_FeatureCountChecked ==
    /\ forecaster # NoForecaster => forecaster.n_qubits = 3
    /\ (ret.op = "forecast" /\ Len(ret.value.features) # 3)
          => /\ ret.raised = "ValueError"
             /\ ret.runs = 0
             /\ DOMAIN ret.value = {"features", "crop_stage"}

\* forecast raised on an array of two features
C16_Witness ==
    /\ ret.op = "forecast" /\ ret.raised = "ValueError"
    /\ Len(ret.value.features) = 2

\* the classification of forecast returned a score and a level
Classified == (ret.op = "forecast" \/ ret.op = "classify") /\ ret.raised = ""

\* C17: the level returned with a score is high exactly when the score is
\* above 0.65 (13/20), medium exactly when it is above 0.35 (7/20) and not
\* above 0.65, and low exactly when it is not above 0.35; 0.65 itself is
\* medium and 0.35 itself is low.
C17_LevelThresholds ==
    Classified =>
        LET num == ret.value.risk_score.num
            den == ret.value.risk_score.den
            level == ret.value.risk_level
        IN  /\ den > 0
            /\ level \in {"High Risk", "Medium Risk", "Low Risk"}
            /\ level = "High Risk" <=> 20 * num > 13 * den
            /\ level = "Medium Risk" <=> (20 * num > 7 * den /\ 20 * num <= 13 * den)
            /\ level = "Low Risk" <=> 20 * num <= 7 * den

\* a score of exactly 0.65 (39 of 60 bits) was classified medium
C17_Witness ==
    /\ Classified
    /\ ret.value.risk_score = [num |-> 39, den |-> 60]
    /\ ret.value.risk_level = "Medium Risk"

\* C18: the risk score forecast returns is the shot-weighted average, over
\* the outcomes of the counts it returns, of the outcome's number of 1 bits
\* over the qubit count; it lies in [0, 1]; and counts with the same shots
\* in which every outcome has at least as many 1 bits give a score that is
\* not lower.
C18_RiskScoreIsBitDensity ==
    Gave("forecast") =>
        LET counts == ret.value.counts
            risk == ret.value.risk_score
            total == SumSeq([i \in DOMAIN counts |-> counts[i].n])
            n_bits == forecaster.n_qubits
        IN  /\ total > 0 /\ risk.den > 0
            /\ risk.num * (n_bits * total)
                  = risk.den * SumSeq([i \in DOMAIN counts |->
                                          SumSeq(counts[i].state) * counts[i].n])
            /\ 0 <= risk.num /\ risk.num <= risk.den
            /\ \A states \in [DOMAIN counts -> Keys(n_bits)] :
                 (\A i \in DOMAIN counts :
                      SumSeq(states[i]) >= SumSeq(counts[i].state))
                 => LET more == risk_score(
                                    [i \in DOMAIN counts |->
                                        [state |-> states[i], n |-> counts[i].n]],
                                    n_bits)
                    IN  risk.num * more.den <= more.num * risk.den

\* forecast returned the score 1/2 for one shot of '100' and one of '011'
C18_Witness ==
    /\ Gave("forecast")
    /\ ret.value.counts = <<[state |-> <<1, 0, 0>>, n |-> 1],
                            [state |-> <<0, 1, 1>>, n |-> 1]>>
    /\ ret.value.risk_score = [num |-> 3, den |-> 6]

\* C19: the recommendations forecast returns are the rule set of the
\* score's tier, followed by the entry of the caller's crop stage when that
\* stage is in the stage table and by nothing otherwise; the list is never
\* empty.
C19_StageEntryAdded ==
    Classified =>
        LET recommendations == ret.value.recommendations
            crop_stage == ret.value.crop_stage
            tier == IF Exceeds(ret.value.risk_score, 7, 10) THEN ActionRequired
                    ELSE IF Exceeds(ret.value.risk_score, 4, 10) THEN Warning
                    ELSE AllClear
        IN  /\ recommendations # <<>>
            /\ recommendations =
                 IF crop_stage \in {"Germination", "Flowering", "Maturation"}
                 THEN Append(tier, stage_recs[crop_stage])
                 ELSE tier

(***************************************************************************)
(* The regression model constructed with more features than qubits:       *)
(* __init__ takes num_features and num_qubits as given and compares them   *)
(* nowhere.                                                                *)
(***************************************************************************)
MismatchArgs == {<<2, 1, 1>>}

InitMismatch == \E a \in MismatchArgs : Constructed(a)

NextMismatch == FitBegin \/ CostEval \/ FitReturn \/ predict

SpecMismatch == InitMismatch /\ [][NextMismatch]_vars

\* C20: fit and predict drop no feature of a row: the circuit built for a
\* row encodes each of its features, and on a model with more features
\* than qubits no circuit is run and neither fit nor predict returns.
C20_MismatchSurfaced ==
    /\ (pc = "minimize" /\ opt.nfev >= 1) =>
          \A i \in DOMAIN opt.X :
              Len(_create_circuit(X_scaled(opt.X)[i], opt.x, num_qubits).feature_map)
                  = Len(opt.X[i])
    /\ num_features > num_qubits =>
          (ret.runs = 0 /\ ~Returned("fit") /\ ~Returned("predict"))

\* C21: a predict call that returns on a trained model ran one circuit per
\* row and returns one prediction per row, and the prediction at position i
\* is expectation * (y_max - y_min) + y_min for the expectation of the
\* evaluation of row i: 0.5 if that row's backend run failed, a value
\* k / (2^n - 1) averaged over the shots otherwise.
C21_PredictPerRow ==
    [][(PredictStep /\ ret'.raised = "") =>
          LET d == ExpDen(num_qubits, shots)
          IN  /\ parameters # None
              /\ ret'.runs \in RowCounts
              /\ DOMAIN ret'.value = 1 .. ret'.runs
              /\ DOMAIN ret'.failed = 1 .. ret'.runs
              /\ \A i \in 1 .. ret'.runs :
                   \E e \in 0 .. d :
                     /\ ret'.failed[i] => 2 * e = d
                     /\ ~ret'.failed[i] => e % (2 * shots) = 0
                     /\ ret'.value[i] = e * (y_max[1] - y_min[1]) + y_min[1] * d]_vars

\* predict returned two different predictions on a model trained on targets
\* 1 and 3: the first from a failed run (0.5 * 2 + 1 = 2), the second from
\* an expectation of 1 (1 * 2 + 1 = 3)
C21_Witness ==
    /\ Returned("predict") /\ ~Degenerate /\ parameters # None
    /\ Len(ret.value) = 2
    /\ ret.failed[1] /\ ~ret.failed[2]
    /\ ret.value[1] = 2 * ExpDen(num_qubits, shots)
    /\ ret.value[2] = 3 * ExpDen(num_qubits, shots)

\* a step of optimize, forecast or the classification of forecast
AdvisorCall == ret'.op \in {"optimize", "forecast", "classify"}

\* C22: a call of optimize or forecast, whether it returns or raises,
\* changes neither instance (n_qubits, depth, shots), and whatever was
\* called before, an instance that exists can be called again; the circuit
\* and the counts a call returns are those of the instance's configuration.
C22_CallsStateless ==
    /\ [][AdvisorCall => UNCHANGED <<optimizer, forecaster>>]_vars
    /\ []((pc = "idle" /\ optimizer # NoOptimizer) => ENABLED optimize)
    /\ []((pc = "idle" /\ forecaster # NoForecaster) => ENABLED forecast)
    /\ [](Gave("optimize") =>
            /\ optimizer \in {QuantumIrrigationOptimizer(s) : s \in Settings}
            /\ ret.value.circuit.layers = optimizer.depth)
    /\ [](Gave("forecast") =>
            /\ forecaster \in {QuantumPestForecaster(s) : s \in Settings}
            /\ ret.value.circuit.num_qubits = forecaster.n_qubits)

\* forecast returned on its instance while an allocator constructed before
\* it exists as well
C22_Witness ==
    /\ Gave("forecast")
    /\ optimizer = QuantumIrrigationOptimizer(
                       [n_qubits |-> 2, circuit_depth |-> 1, shots |-> 2])
    /\ forecaster = QuantumPestForecaster([shots |-> 2])
    /\ Len(ret.value.counts) = 2

(***************************************************************************)
(* The inputs of the yield prediction (frontend/components/dashboard.py,   *)
(* render_crop_analytics) and the two collectors it calls.  A collector's  *)
(* HTTP request is not simulated: it fails with a RequestException or      *)
(* returns a well-formed response.  A Python value that may be None is     *)
(* [kind |-> "None"] or [kind |-> "dict", data |-> record].  Temperature,  *)
(* humidity, pH and rainfall are counted in tenths.                        *)
(***************************************************************************)
PyNone == [kind |-> "None"]
PyDict(data) == [kind |-> "dict", data |-> data]
\* bool(v): None and the empty dictionary are false
Truthy(v) == v.kind = "dict" /\ DOMAIN v.data # {}

FARM_LOCATIONS ==
    {"Maharashtra, India", "California, USA", "Bavaria, Germany",
     "Sao Paulo, Brazil"}
FarmLocations == FARM_LOCATIONS \cup {"Elsewhere"}
ApiKeys == {"unset", "your_api_key_here", "valid"}
WeatherResponses ==
    {[failed |-> TRUE, temp |-> 0, humidity |-> 0]}
        \cup {[failed |-> FALSE, temp |-> t, humidity |-> h] :
                 t \in {203, 310}, h \in {55, 80}}
\* the layers of a SoilGrids response: name and mean value (0 for null)
SoilResponses ==
    {[failed |-> TRUE, layers |-> <<>>]}
        \cup {[failed |-> FALSE, layers |-> l] :
                 l \in {<<>>,
                        <<[name |-> "soc", mean |-> 150]>>,
                        <<[name |-> "phh2o", mean |-> 0]>>,
                        <<[name |-> "phh2o", mean |-> 55]>>,
                        <<[name |-> "phh2o", mean |-> 72]>>}}
\* the manual sliders: their defaults and one other setting
ManualInputs == {<<250, 650, 65, 500>>, <<300, 400, 70, 1200>>}

\* WeatherDataCollector.get_live_weather
get_live_weather(api_key, response) ==
    IF api_key = "unset" \/ api_key = "your_api_key_here" THEN PyNone
    ELSE IF response.failed THEN PyNone
    ELSE PyDict([temperature |-> response.temp,
                 humidity |-> response.humidity * 10])

\* SoilDataCollector.get_soil_properties: processed_data after the loop over
\* the layers (organic carbon in hundredths of a percent)
RECURSIVE processed_data(_)
processed_data(layers) ==
    IF layers = <<>> THEN <<>>
    ELSE LET layer == Head(layers)
             value == IF layer.mean = 0 THEN
                          (IF layer.name = "phh2o" THEN 65 ELSE 150)
                      ELSE layer.mean
             key == IF layer.name = "phh2o" THEN "soil_ph"
                    ELSE "organic_carbon_percent"
         IN  (key :> value) @@ processed_data(Tail(layers))

get_soil_properties(response) ==
    IF response.failed THEN PyNone ELSE PyDict(processed_data(response.layers))

\* Mutant of both_fetched: live_weather or live_soil.
either_fetched(live_weather, live_soil) ==
    Truthy(live_weather) \/ Truthy(live_soil)

\* if live_weather and live_soil:
both_fetched(live_weather, live_soil) ==
    Truthy(live_weather) /\ Truthy(live_soil)

\* Lines 30-63: the four current values, or the exception a subscript
\* raises.
current_values(farm_location, live_weather, live_soil) ==
    LET defaults == [raised |-> "", features |-> <<250, 650, 65, 500>>]
    IN  IF farm_location \notin FARM_LOCATIONS THEN defaults
        ELSE IF ~both_fetched(live_weather, live_soil) THEN defaults
        ELSE IF live_weather.kind = "None" \/ live_soil.kind = "None"
             THEN [raised |-> "TypeError", features |-> <<>>]
        ELSE IF "temperature" \notin DOMAIN live_weather.data
                  \/ "soil_ph" \notin DOMAIN live_soil.data
             THEN [raised |-> "KeyError", features |-> <<>>]
        ELSE [raised |-> "",
              features |-> <<live_weather.data.temperature,
                             live_weather.data.humidity,
                             live_soil.data.soil_ph,
                             500 + (live_weather.data.humidity - 650) \div 2>>]

\* render_crop_analytics up to the array handed to predictor.predict
\* (line 105): the toggle, the location of the settings, what the two
\* collectors meet, and the manual sliders.
render_crop_analytics ==
    /\ pc = "idle"
    /\ \E use_live_data \in BOOLEAN : \E farm_location \in FarmLocations :
       \E api_key \in ApiKeys : \E weather \in WeatherResponses :
       \E soil \in SoilResponses : \E manual \in ManualInputs :
         LET called == use_live_data /\ farm_location \in FARM_LOCATIONS
             live_weather == IF called THEN get_live_weather(api_key, weather)
                             ELSE PyNone
             live_soil == IF called THEN get_soil_properties(soil) ELSE PyNone
             current == IF use_live_data
                        THEN current_values(farm_location, live_weather, live_soil)
                        ELSE [raised |-> "", features |-> manual]
         IN  ret' = Ret("render_crop_analytics", current.raised,
                        [use_live_data |-> use_live_data,
                         farm_location |-> IF use_live_data THEN farm_location
                                           ELSE "",
                         api_key |-> IF called THEN api_key ELSE "",
                         live_weather |-> live_weather,
                         live_soil |-> live_soil,
                         features |-> current.features],
                        <<>>, 0)
    /\ UNCHANGED <<regression, optimizer, forecaster>>

NextDashboard == render_crop_analytics

SpecDashboard == Init /\ [][NextDashboard]_vars

\* C23: with live data switched on and a collector that returned nothing
\* (None, or a dictionary without entries), the values handed to the model
\* are the defaults 25, 65, 6.5 and 50, all four of them, and nothing is
\* raised before the prediction step.
C23_DefaultsOnProviderFailure ==
    (ret.op = "render_crop_analytics" /\ ret.value.use_live_data
        /\ (ret.value.live_weather = PyNone
               \/ ret.value.live_soil = PyNone
               \/ ret.value.live_soil = PyDict(<<>>)))
        => /\ ret.raised = ""
           /\ ret.value.features = <<250, 650, 65, 500>>

\* the weather request failed with a configured key while the soil
\* collector returned a pH of 7.2: the pH handed on is still 6.5
C23_Witness ==
    /\ ret.op = "render_crop_analytics" /\ ret.value.use_live_data
    /\ ret.value.api_key = "valid"
    /\ ret.value.live_weather = PyNone
    /\ ret.value.live_soil = PyDict([soil_ph |-> 72])
    /\ ret.value.features = <<250, 650, 65, 500>>

\* C24: the allocation has one entry per zone, and entry i is 0.8 times
\* requirement i where character i of the winning string is 1 and 0 where
\* it is 0.
C24_PositionalDecode ==
    Gave("optimize") =>
        LET winner == best_state(ret.value.counts)
            zones == ret.value.zone_data
        IN  /\ DOMAIN ret.value.optimal_allocation = 1 .. Len(zones)
            /\ \A i \in 1 .. Len(zones) :
                 ret.value.optimal_allocation[i]
                     = IF winner[i] = 1 THEN zones[i].requirement * 8 ELSE 0

\* both shots gave "01": the first zone gets nothing, the second 0.8 * 10
C24_Witness ==
    /\ Gave("optimize")
    /\ ret.value.zone_data = <<[requirement |-> 5], [requirement |-> 10]>>
    /\ ret.value.counts = <<[state |-> <<0, 1>>, n |-> 2]>>
    /\ ret.value.optimal_allocation = <<0, 80>>

\* C25: the string the allocation is decoded from has the largest count of
\* the distribution, and no string met before it in the distribution's
\* iteration order has a count as large.
C25_FirstMaximumWins ==
    Gave("optimize") =>
        \E i \in DOMAIN ret.value.counts :
          LET counts == ret.value.counts
          IN  /\ \A j \in DOMAIN counts : counts[j].n <= counts[i].n
              /\ \A j \in 1 .. (i - 1) : counts[j].n < counts[i].n
              /\ ret.value.optimal_allocation
                     = optimal_allocation(ret.value.zone_data, counts[i].state)

\* "10" and "01" were seen once each, "10" first: the first zone is watered
C25_Witness ==
    /\ Gave("optimize")
    /\ ret.value.zone_data = <<[requirement |-> 5], [requirement |-> 10]>>
    /\ ret.value.counts = <<[state |-> <<1, 0>>, n |-> 1],
                            [state |-> <<0, 1>>, n |-> 1]>>
    /\ ret.value.optimal_allocation = <<40, 0>>

(***************************************************************************)
(* Backend resolution (quantum/utils/quantum_backend.py).  A radio label   *)
(* is the sequence of its pieces: an icon, blanks, the name.  Each step of *)
(* a chain meets one of three outcomes: it works, its import fails         *)
(* (ImportError), or it fails otherwise.                                   *)
(***************************************************************************)
BackendTypes ==
    {<<"computer", " ", "Simulator">>, <<"Simulator">>,
     <<"microscope", " ", "Fake Device">>, <<"Fake Device">>,
     <<"atom", " ", "Real Quantum">>, <<"Real Quantum">>,
     <<"Annealer">>}
ShotChoices == {512, 1024}
Outcomes == {"ok", "ImportError", "Exception"}
\* Methods 1 to 4 of the 'Fake Device' branch, in the order of the code
FakeProviders ==
    <<"qiskit_ibm_runtime FakeManila", "qiskit.providers FakeManila",
      "FakeManilaV2", "FakeVigo">>
Imports == [1 .. Len(FakeProviders) -> Outcomes]
aer_simulator == "aer_simulator"
NoBackend == "None"
\* the names config/settings.py defines
SettingsNames ==
    {"OPENWEATHER_API_KEY", "ALPHAVANTAGE_API_KEY", "DEBUG", "CACHE_DURATION",
     "QUANTUM_BACKEND", "DEFAULT_SHOTS", "DEFAULT_LATITUDE",
     "DEFAULT_LONGITUDE", "FARM_LOCATIONS"}

\* str.strip() on the pieces of a label
RECURSIVE strip(_)
strip(label) ==
    IF label = <<>> THEN label
    ELSE IF Head(label) = " " THEN strip(Tail(label))
    ELSE IF label[Len(label)] = " " THEN strip(SubSeq(label, 1, Len(label) - 1))
    ELSE label

\* backend_type.replace(computer, '').replace(microscope, '').strip()
clean_backend_type(backend_type) ==
    strip(SelectSeq(backend_type, LAMBDA piece : piece \notin {"computer", "microscope"}))

\* Mutant of backend_is_None: the guards `if backend is None` are dropped.
backend_unchecked(backend) == TRUE

\* if backend is None:
backend_is_None(backend) == backend = NoBackend

\* Lines 20-67 from method k on: the methods tried and the backend chosen.
RECURSIVE fake_device(_, _, _, _)
fake_device(k, imports, tried, backend) ==
    IF k > Len(FakeProviders)
    THEN [tried |-> tried,
          backend |-> IF backend = NoBackend THEN aer_simulator ELSE backend]
    ELSE IF ~(k = 1 \/ backend_is_None(backend))
    THEN fake_device(k + 1, imports, tried, backend)
    ELSE IF imports[k] = "Exception"
    THEN [tried |-> Append(tried, k), backend |-> aer_simulator]
    ELSE fake_device(k + 1, imports, Append(tried, k),
                     IF imports[k] = "ok" THEN FakeProviders[k] ELSE backend)

\* Lines 70-106 once settings.IBM_QUANTUM_TOKEN has a value.
real_quantum(token, runtime, legacy) ==
    IF token \in {"unset", "your_api_key_here"} THEN aer_simulator
    ELSE IF runtime = "ok" THEN "ibm_quantum"
    ELSE IF runtime = "Exception" THEN aer_simulator
    ELSE IF legacy = "ok" THEN "ibmq_qasm_simulator"
    ELSE aer_simulator

backend_config(backend, shot_count) ==
    [backend |-> backend, shots |-> shot_count, optimization_level |-> 1,
     seed_simulator |-> 42]

get_quantum_backend ==
    /\ pc = "idle"
    /\ \E backend_type \in BackendTypes : \E shot_count \in ShotChoices :
         LET name == clean_backend_type(backend_type)
             simulator == [backend_type |-> backend_type, imports |-> <<>>,
                           tried |-> <<>>,
                           config |-> backend_config(aer_simulator, shot_count)]
         IN  IF name = <<"Simulator">>
             THEN ret' = Ret("get_quantum_backend", "", simulator, <<>>, 0)
             ELSE IF name = <<"Fake Device">>
             THEN \E imports \in Imports :
                    LET chain == fake_device(1, imports, <<>>, NoBackend)
                    IN  ret' = Ret("get_quantum_backend", "",
                                   [backend_type |-> backend_type,
                                    imports |-> imports,
                                    tried |-> chain.tried,
                                    config |-> backend_config(chain.backend, shot_count)],
                                   <<>>, 0)
             ELSE IF name = <<"Real Quantum">>
             THEN IF "IBM_QUANTUM_TOKEN" \notin SettingsNames
                  THEN ret' = Ret("get_quantum_backend", "AttributeError",
                                  [backend_type |-> backend_type], <<>>, 0)
                  ELSE \E token \in ApiKeys : \E runtime \in Outcomes :
                       \E legacy \in Outcomes \ {"ImportError"} :
                         ret' = Ret("get_quantum_backend", "",
                                    [simulator EXCEPT !.config.backend =
                                         real_quantum(token, runtime, legacy)],
                                    <<>>, 0)
             ELSE ret' = Ret("get_quantum_backend", "", simulator, <<>>, 0)
    /\ UNCHANGED <<regression, optimizer, forecaster>>

NextBackend == get_quantum_backend

SpecBackend == Init /\ [][NextBackend]_vars

Resolved(name) ==
    /\ Gave("get_quantum_backend")
    /\ clean_backend_type(ret.value.backend_type) = <<name>>

C30_NeverRaises ==
    ret.op = "get_quantum_backend" =>
        /\ ret.raised = ""
        /\ ret.value.config.shots \in ShotChoices
        /\ ret.value.config.optimization_level = 1
        /\ ret.value.config.seed_simulator = 42
        /\ ret.value.config.backend # NoBackend

TrainedOn == [X |-> <<<<0>>, <<1>>>>, y |-> <<1, 3>>]

Trained ==
    /\ \E a \in ConstructorArgs :
         /\ num_features = a[1]
         /\ num_qubits = InitQubits(a[1], a[2])
         /\ shots = a[3]
    /\ scaler = fit_transform(Unfitted, TrainedOn.X)
    /\ y_min = <<Min(Range(TrainedOn.y))>>
    /\ y_max = <<Max(Range(TrainedOn.y))>>
    /\ parameters \in ParameterVectors
    /\ pc = "idle"
    /\ opt = NoFit
    /\ ret = Ret("fit", "", [nfev |-> 1, refit |-> FALSE, improved |-> FALSE],
                 <<>>, Len(TrainedOn.y))
    /\ optimizer = NoOptimizer
    /\ forecaster = NoForecaster

NextRefit == FitBegin \/ CostEval \/ CostRaise

SpecRefit == Trained /\ [][NextRefit]_vars

\* C28: after a fit on a trained model raised, the scaler statistics, the
\* target range and the parameter vector are those of the last fit that
\* completed.
C28_FailedRefitKeepsState ==
    (Idle /\ ret.op = "fit" /\ ret.raised # "")
        => /\ scaler = fit_transform(Unfitted, TrainedOn.X)
           /\ y_min = <<Min(Range(TrainedOn.y))>>
           /\ y_max = <<Max(Range(TrainedOn.y))>>
           /\ parameters # None

StartsWith(recommendations, tier) ==
    /\ Len(recommendations) >= Len(tier)
    /\ \A i \in DOMAIN tier : recommendations[i] = tier[i]

\* C29: the recommendations a forecast returns begin with the
\* action-required set exactly when the level it returns is high, with the
\* warning set exactly when it is medium, and with the all-clear set
\* exactly when it is low.
C29_TierMatchesLevel ==
    Gave("forecast") =>
        LET level == ret.value.risk_level
            recommendations == ret.value.recommendations
        IN  /\ level = "High Risk" <=> StartsWith(recommendations, ActionRequired)
            /\ level = "Medium Risk" <=> StartsWith(recommendations, Warning)
            /\ level = "Low Risk" <=> StartsWith(recommendations, AllClear)
====
